---- MODULE Spec2Model ----
(***************************************************************************)
(* Model of src/app.py: a Streamlit vocabulary trainer.  The whole script  *)
(* runs top to bottom once per user interaction; a button is TRUE only in  *)
(* the run caused by its click, and only when that run reaches the line    *)
(* that creates it.  st.session_state survives between runs, the vocab     *)
(* table lives in an external store.                                       *)
(***************************************************************************)
EXTENDS Integers, Sequences, FiniteSets, TLC

VARIABLES
    db,             \* the vocab table: its rows, in table order
    now,            \* datetime.now(), in days
    session_state,  \* st.session_state: key -> value, keys may be missing
    game_mode,      \* value of the st.radio of the games tab
    screen,         \* widgets and messages left on the page by the last run
    log,            \* what the run that served the last interaction did, in order
    calls,          \* number of update_mastery calls made so far
    next_id         \* the id the table gives to the next inserted row

vars == <<db, now, session_state, game_mode, screen, log, calls, next_id>>

-----------------------------------------------------------------------------
(* Bounds of the model *)

\* update_mastery calls per behaviour of Spec
MaxCalls == 3
\* update_mastery calls per behaviour of SchedSpec
SchedCalls == 1
\* update_mastery calls per behaviour of ReviewSpec
ReviewCalls == 4
\* largest current_score handed to update_mastery in SchedSpec
MaxLevel == 7
\* answers the user still gives after the session length, in LongSpec
MaxOverrun == 1
LongCalls == 17
\* SwitchSpec: update_mastery calls
SwitchCalls == 1
\* BlankSpec: words in the longest examples string
MaxExample == 2
\* GenSpec: words in the largest pool
MaxGen == 5
\* AddSpec: the largest id given to a saved word, update_mastery calls, days
\* that pass
MaxId == 5
AddCalls == 1
MaxNow == 1
LevelCalls == 2

-----------------------------------------------------------------------------
(* Program constants *)

MinPool == 4            \* len(words) < 4
MaxScore == 5           \* min(current_score + 1, 5)
DMLength == 10          \* Definition Match: game_questions < 10
FBLength == 10          \* Fill in the Blank: game_questions < 10
QFLength == 15          \* Quick Fire: game_questions < 15
DelayTable == <<0, 1, 3, 7, 14, 30>>

DM == "Definition Match"
FB == "Fill in the Blank"
QF == "Quick Fire Quiz"
Modes == {DM, FB, QF}

Ids == 1..MinPool

-----------------------------------------------------------------------------
(* Python helpers *)

Min(a, b) == IF a < b THEN a ELSE b

\* lst[i] of a Python list, as <<value>>; <<>> when it raises IndexError
ListIndex(lst, i) ==
    IF i >= 0 /\ i < Len(lst) THEN <<lst[i + 1]>>
    ELSE IF i < 0 /\ i >= -Len(lst) THEN <<lst[Len(lst) + i + 1]>>
    ELSE <<>>

\* st.session_state[k] = v
Put(ss, k, v) == (k :> v) @@ ss

Has(ss, k) == k \in DOMAIN ss

\* The outcomes of the random module are drawn from a small set.
\* random.sample(lst, k): every choice of k elements, kept in list order
RECURSIVE Samples(_, _)
Samples(lst, k) ==
    IF k = 0 THEN {<<>>}
    ELSE IF Len(lst) < k THEN {}
    ELSE {<<Head(lst)>> \o s : s \in Samples(Tail(lst), k - 1)}
         \cup Samples(Tail(lst), k)

\* random.shuffle(lst): the rotations of lst, so every element can land on
\* every position
Shuffles(lst) ==
    {[i \in 1..Len(lst) |-> lst[((i + k - 1) % Len(lst)) + 1]] : k \in 0..(Len(lst) - 1)}

Range(lst) == {lst[i] : i \in DOMAIN lst}

-----------------------------------------------------------------------------
(* Texts.  A text is a base spelling, a letter case and optional surrounding *)
(* blanks; str.lower() and str.strip() act on the last two.                 *)

Text(b, c, p) == [base |-> b, style |-> c, pad |-> p]
Lower(t) == [t EXCEPT !.style = "lower"]
Strip(t) == [t EXCEPT !.pad = FALSE]

\* row['word'] and row['meanings'][0] of the row with this id
WordOf(id) == Text(id, "lower", FALSE)
FirstMeaning(id) == id

\* what the user can type into "Your answer:" when word_id is asked
TypedAnswers(word_id) ==
    {Text(word_id, "lower", FALSE), Text(word_id, "upper", TRUE),
     Text(0, "lower", FALSE), Text((word_id % MinPool) + 1, "lower", FALSE)}

-----------------------------------------------------------------------------
(* One script run.  r = [ss, db, now, out, log, status]: session state,      *)
(* store, clock, page written so far, effects so far, and "running" |       *)
(* "rerun" (st.rerun was called) | "exception" (the run died of an uncaught *)
(* exception).                                                              *)

Show(r, what) == [r EXCEPT !.out = @ \cup {what}]
Note(r, what) == [r EXCEPT !.log = Append(@, what)]
Set(r, k, v) == [r EXCEPT !.ss = Put(@, k, v)]
Rerun(r) == [r EXCEPT !.status = "rerun"]
Raise(r, what) == [r EXCEPT !.out = @ \cup {what}, !.status = "exception"]

\* get_all_words: select("*"), the rows in table order
get_all_words(d) == d

\* faulty schedulers, which the properties of update_mastery tell apart from
\* the one of lines 65-70: a level that rises by two, a level that falls by
\* one when the word is forgotten, a delay looked up at the level before
NewScoreSkips(current_score, remembered) ==
    IF remembered THEN Min(current_score + 2, MaxScore) ELSE 0

NewScoreDecrement(current_score, remembered) ==
    IF remembered THEN Min(current_score + 1, MaxScore)
    ELSE IF current_score > 0 THEN current_score - 1 ELSE 0

NewScoreBelow(current_score, remembered) ==
    IF remembered THEN Min(current_score + 1, MaxScore) ELSE current_score - 1

DaysOfCurrent(new_score, remembered) ==
    IF remembered THEN ListIndex(DelayTable, new_score - 1) ELSE <<0>>

\* update_mastery, lines 65-70
NewScore(current_score, remembered) ==
    IF remembered THEN Min(current_score + 1, MaxScore) ELSE 0

Days(new_score, remembered) ==
    IF remembered THEN ListIndex(DelayTable, new_score) ELSE <<0>>

\* lines 72-82: the write of new_score and next_date to the row of word_id;
\* days = <<>> is the IndexError of line 67
\* a faulty write, which stores the level and leaves the review date
StoreUpdateLevelOnly(r, word_id, new_score, days, store_ok) ==
    IF days = <<>> THEN Raise(r, "IndexError")
    ELSE IF store_ok
    THEN [r EXCEPT !.db = [i \in DOMAIN @ |->
                              IF @[i].id = word_id
                              THEN [@[i] EXCEPT !.mastery_score = new_score]
                              ELSE @[i]],
                   !.log = Append(@, [op |-> "store.update", word_id |-> word_id,
                                      mastery_score |-> new_score,
                                      next_review |-> r.now + days[1], ok |-> TRUE])]
    ELSE [r EXCEPT !.out = @ \cup {"error: Update failed"},
                   !.log = Append(@, [op |-> "store.update", word_id |-> word_id,
                                      mastery_score |-> new_score,
                                      next_review |-> r.now + days[1], ok |-> FALSE])]

StoreUpdate(r, word_id, new_score, days, store_ok) ==
    IF days = <<>> THEN Raise(r, "IndexError")
    ELSE IF store_ok
    THEN [r EXCEPT !.db = [i \in DOMAIN @ |->
                              IF @[i].id = word_id
                              THEN [@[i] EXCEPT !.mastery_score = new_score,
                                                !.next_review = r.now + days[1]]
                              ELSE @[i]],
                   !.log = Append(@, [op |-> "store.update", word_id |-> word_id,
                                      mastery_score |-> new_score,
                                      next_review |-> r.now + days[1], ok |-> TRUE])]
    ELSE [r EXCEPT !.out = @ \cup {"error: Update failed"},
                   !.log = Append(@, [op |-> "store.update", word_id |-> word_id,
                                      mastery_score |-> new_score,
                                      next_review |-> r.now + days[1], ok |-> FALSE])]

\* update_mastery(word_id, current_score, remembered); store_ok: the store
\* accepts the write
update_mastery(r, word_id, current_score, remembered, store_ok) ==
    StoreUpdate(Note(r, [op |-> "update_mastery", word_id |-> word_id,
                         current_score |-> current_score, remembered |-> remembered]),
                word_id, NewScore(current_score, remembered),
                Days(NewScore(current_score, remembered), remembered), store_ok)

-----------------------------------------------------------------------------
(* Question generation *)

\* a faulty exclusion, which leaves the question's word among the candidates
OtherWordsAll(words, question) == words

OtherWords(words, question) ==
    LET Other(w) == w.id # question.id IN SelectSeq(words, Other)

\* lines 272-276 and 305-308: the outcomes of sample and shuffle for question q
DMOptionLists(words, q) ==
    UNION {Shuffles(<<q>> \o wrong) :
           wrong \in Samples(OtherWords(words, q), Min(3, Len(OtherWords(words, q))))}

\* lines 269-277 and 304-309
DMQuestions(words) ==
    UNION {{[current_question |-> q, options |-> o] : o \in DMOptionLists(words, q)} :
           q \in Range(words)}

\* lines 330 and 363
FBQuestions(words) == {[current_question |-> q] : q \in Range(words)}

\* lines 386-397, 424-435 and 460-471
QFQuestions(words) ==
    UNION {{[current_question |-> q, shown_definition |-> FirstMeaning(q.id),
             is_correct |-> TRUE]}
           \cup {[current_question |-> q, shown_definition |-> FirstMeaning(o.id),
                  is_correct |-> FALSE] : o \in Range(OtherWords(words, q))} :
           q \in Range(words)}

\* st.session_state[k] = g[k] for every key of the generated question
Load(r, g) == [r EXCEPT !.ss = g @@ @]

\* lines 266-268, 327-329, 381-383
\* a faulty start, which keeps the score of the session before
ResetGameKeepsScore(r) ==
    [r EXCEPT !.ss = ("game_active" :> TRUE) @@ ("game_questions" :> 0) @@ @]

ResetGame(r) ==
    [r EXCEPT !.ss = ("game_active" :> TRUE) @@ ("game_score" :> 0)
                     @@ ("game_questions" :> 0) @@ @]

\* the Start Game handler of every mode
StartGame(r, g) ==
    [r EXCEPT !.ss = g @@ ResetGame(r).ss, !.log = Append(@, [op |-> "start"]),
              !.status = "rerun"]

\* the Next Question handler of every mode
NextQuestion(r, g) ==
    [r EXCEPT !.ss = g @@ @, !.log = Append(@, [op |-> "next"]), !.status = "rerun"]

\* the Play Again handler of every mode
PlayAgain(r) ==
    [r EXCEPT !.ss = ("game_active" :> FALSE) @@ @,
              !.log = Append(@, [op |-> "play_again"]), !.status = "rerun"]

-----------------------------------------------------------------------------
(* An answer, lines 290-317, 350-371, 411-443, 447-479.  correct: the       *)
(* outcome of the mode's comparison; length: the mode's session length;     *)
(* next, again: the keys of the two nested buttons; click: the button       *)
(* that caused this run; inp: the random outcomes and store verdict of      *)
(* this run.                                                                *)

\* lines 290-293/296: the counters and the verdict shown
\* a faulty count, which scores every answer
CountAnswerAlways(r, correct) ==
    [r EXCEPT !.ss = ("game_questions" :> (@["game_questions"] + 1))
                     @@ ("game_score" :> (@["game_score"] + 1))
                     @@ @,
              !.out = @ \cup {IF correct THEN "success: Correct" ELSE "error: Wrong"},
              !.log = Append(@, [op |-> "answer", correct |-> correct])]

\* a faulty count, which scores a right answer twice
CountAnswerDouble(r, correct) ==
    [r EXCEPT !.ss = ("game_questions" :> (@["game_questions"] + 1))
                     @@ ("game_score" :> (@["game_score"] + IF correct THEN 2 ELSE 0))
                     @@ @,
              !.out = @ \cup {IF correct THEN "success: Correct" ELSE "error: Wrong"},
              !.log = Append(@, [op |-> "answer", correct |-> correct])]

CountAnswer(r, correct) ==
    [r EXCEPT !.ss = ("game_questions" :> (@["game_questions"] + 1))
                     @@ ("game_score" :> (@["game_score"] + IF correct THEN 1 ELSE 0))
                     @@ @,
              !.out = @ \cup {IF correct THEN "success: Correct" ELSE "error: Wrong"},
              !.log = Append(@, [op |-> "answer", correct |-> correct])]

\* lines 301-317: the nested Next Question or Play Again button
OfferNext(r, length, next, again, click, inp) ==
    IF r.ss["game_questions"] < length
    THEN IF click = next THEN NextQuestion(Show(r, next), inp.question)
         ELSE Show(r, next)
    ELSE IF click = again
         THEN PlayAgain([r EXCEPT !.out = @ \cup {"success: Game Over", again}])
         ELSE [r EXCEPT !.out = @ \cup {"success: Game Over", again}]

\* line 299
ReportScore(r, length, next, again, click, inp) ==
    IF r.status # "running" THEN r
    ELSE OfferNext([r EXCEPT !.out = @ \cup {"info: Score"},
                             !.log = Append(@, [op |-> "st.info",
                                                score |-> r.ss["game_score"],
                                                questions |-> r.ss["game_questions"]])],
                   length, next, again, click, inp)

\* a faulty answer handler, which tells the scheduler that every word was
\* remembered
AnsweredRemembered(r, correct, length, next, again, click, inp) ==
    ReportScore(update_mastery(CountAnswer(r, correct),
                               r.ss["current_question"].id,
                               r.ss["current_question"].mastery_score,
                               TRUE, inp.store_ok),
                length, next, again, click, inp)

Answered(r, correct, length, next, again, click, inp) ==
    ReportScore(update_mastery(CountAnswer(r, correct),
                               r.ss["current_question"].id,
                               r.ss["current_question"].mastery_score,
                               correct, inp.store_ok),
                length, next, again, click, inp)

-----------------------------------------------------------------------------
(* Tab 1: add a word *)

\* What json.loads makes of the provider's text: kind "unparseable" when it
\* raises, else the value: null, a non-empty list, or a dict that has
\* 'meanings' as a list of that many strings (0: no such key), has 'examples'
\* or not, and has some other key or not.
Responses ==
    [kind : {"unparseable", "null", "list"}, meanings : {0}, examples : {FALSE},
     extra : {FALSE}]
    \cup [kind : {"dict"}, meanings : {0, 2, 3}, examples : BOOLEAN, extra : BOOLEAN]

NoResponse == [kind |-> "null", meanings |-> 0, examples |-> FALSE, extra |-> FALSE]

\* the response of the prompt's format
Expected == [kind |-> "dict", meanings |-> 3, examples |-> TRUE, extra |-> FALSE]

\* line 207: if result
Truthy(v) ==
    \/ v.kind = "list"
    \/ v.kind = "dict" /\ (v.meanings > 0 \/ v.examples \/ v.extra)

\* lines 26-45 and 204-210
get_ai_meanings(r, new_word, response) ==
    IF response.kind = "unparseable" THEN Show(r, "error: AI Error")
    ELSE IF Truthy(response)
    THEN [r EXCEPT !.ss = ("temp_data" :> response) @@ ("current_word" :> new_word) @@ @,
                   !.out = @ \cup {"success: Analysis complete"}]
    ELSE r

\* a faulty save, which makes the new word due a day later
save_wordDueTomorrow(r, data, new_id, store_ok) ==
    IF data.kind = "dict" /\ data.meanings > 0 /\ data.examples /\ store_ok
    THEN [r EXCEPT !.db = Append(@, [id |-> new_id, mastery_score |-> 0,
                                     next_review |-> r.now + 1]),
                   !.log = Append(@, [op |-> "store.insert", word_id |-> new_id,
                                      mastery_score |-> 0, next_review |-> r.now + 1,
                                      ok |-> TRUE])]
    ELSE [r EXCEPT !.out = @ \cup {"error: Database Error"},
                   !.log = Append(@, [op |-> "store.insert", word_id |-> new_id,
                                      mastery_score |-> 0, next_review |-> r.now + 1,
                                      ok |-> FALSE])]

\* lines 47-61; new_id: the id the table gives to the row
save_word(r, data, new_id, store_ok) ==
    IF data.kind = "dict" /\ data.meanings > 0 /\ data.examples /\ store_ok
    THEN [r EXCEPT !.db = Append(@, [id |-> new_id, mastery_score |-> 0,
                                     next_review |-> r.now]),
                   !.log = Append(@, [op |-> "store.insert", word_id |-> new_id,
                                      mastery_score |-> 0, next_review |-> r.now,
                                      ok |-> TRUE])]
    ELSE [r EXCEPT !.out = @ \cup {"error: Database Error"},
                   !.log = Append(@, [op |-> "store.insert", word_id |-> new_id,
                                      mastery_score |-> 0, next_review |-> r.now,
                                      ok |-> FALSE])]

\* lines 230-231 and 235-236: del st.session_state[...]
Forget(r) ==
    [r EXCEPT !.ss = [k \in DOMAIN @ \ {"temp_data", "current_word"} |-> @[k]]]

\* lines 227-232: what follows save_word
Saved(r) ==
    IF r.log[Len(r.log)].ok
    THEN Rerun(Forget(Show(r, "success: added to your collection")))
    ELSE r

\* lines 224-237
PendingButtons(r, click, inp) ==
    IF click = "save" THEN Saved(save_word(r, r.ss["temp_data"], inp.new_id, inp.store_ok))
    ELSE IF click = "try_another" THEN Rerun(Forget(r))
    ELSE r

\* lines 212-237: the pending analysis, its definitions and example, the buttons
Pending(r, click, inp) ==
    IF ~Has(r.ss, "temp_data") THEN r
    ELSE IF r.ss["temp_data"].kind # "dict" THEN Raise(r, "TypeError")
    ELSE IF r.ss["temp_data"].meanings = 0 THEN Raise(r, "KeyError")
    ELSE IF ~r.ss["temp_data"].examples THEN Raise(Show(r, "definitions"), "KeyError")
    ELSE PendingButtons([r EXCEPT !.out = @ \cup {"definitions", "examples", "save",
                                                  "try_another"}],
                        click, inp)

\* lines 194-239
AddWord(r, click, inp) ==
    Pending(IF click = "analyze" /\ inp.new_word # ""
            THEN get_ai_meanings(Show(r, "analyze"), inp.new_word, inp.response)
            ELSE Show(r, "analyze"),
            click, inp)

-----------------------------------------------------------------------------
(* Tab 2: the three games *)

\* key=f"opt_{i}" of the i-th option button
OptionKeys == <<"opt_0", "opt_1", "opt_2", "opt_3">>

\* lines 288-317: one button per option, each followed by its handler
RECURSIVE DMOptions(_, _, _, _, _, _)
DMOptions(r, question, options, i, click, inp) ==
    IF r.status # "running" \/ i > Len(options) THEN r
    ELSE DMOptions(IF click = OptionKeys[i]
                   THEN Answered(Show(r, OptionKeys[i]), options[i].id = question.id,
                                 DMLength, "next", "play_again", click, inp)
                   ELSE Show(r, OptionKeys[i]),
                   question, options, i + 1, click, inp)

\* lines 259-317
DefinitionMatch(r, words, click, inp) ==
    IF click = "start" THEN StartGame(Show(r, "start"), inp.question)
    ELSE IF ~r.ss["game_active"] THEN Show(r, "start")
    ELSE IF ~Has(r.ss, "current_question") \/ ~Has(r.ss, "options")
         THEN Raise(Show(r, "start"), "KeyError")
    ELSE DMOptions([r EXCEPT !.out = @ \cup {"start", "question"}],
                   r.ss["current_question"], r.ss["options"], 1, click, inp)

\* line 351
FBCorrect(user_answer, word_to_hide) == Strip(Lower(user_answer)) = Lower(word_to_hide)

\* lines 320-371
FillInTheBlank(r, words, click, inp) ==
    IF click = "start" THEN StartGame(Show(r, "start"), inp.question)
    ELSE IF ~r.ss["game_active"] THEN Show(r, "start")
    ELSE IF ~Has(r.ss, "current_question") THEN Raise(Show(r, "start"), "KeyError")
    ELSE IF click = "submit"
         THEN Answered([r EXCEPT !.out = @ \cup {"start", "question", "text_input", "submit"}],
                       FBCorrect(inp.typed, WordOf(r.ss["current_question"].id)),
                       FBLength, "next", "play_again", click, inp)
    ELSE [r EXCEPT !.out = @ \cup {"start", "question", "text_input", "submit"}]

\* lines 445-479: the FALSE column
QFFalse(r, click, inp) ==
    IF r.status # "running" THEN r
    ELSE IF click = "false"
         THEN Answered(Show(r, "false"), ~r.ss["is_correct"], QFLength,
                       "next2", "replay2", click, inp)
    ELSE Show(r, "false")

\* lines 374-479
QuickFire(r, words, click, inp) ==
    IF click = "start" THEN StartGame(Show(r, "start"), inp.question)
    ELSE IF ~r.ss["game_active"] THEN Show(r, "start")
    ELSE IF ~Has(r.ss, "current_question") \/ ~Has(r.ss, "shown_definition")
         THEN Raise(Show(r, "start"), "KeyError")
    ELSE QFFalse(IF click = "true"
                 THEN Answered([r EXCEPT !.out = @ \cup {"start", "question", "true"}],
                               r.ss["is_correct"], QFLength,
                               "next", "play_again", click, inp)
                 ELSE [r EXCEPT !.out = @ \cup {"start", "question", "true"}],
                 click, inp)

\* lines 253-256
InitGame(r) ==
    IF Has(r.ss, "game_active") THEN r
    ELSE [r EXCEPT !.ss = ("game_active" :> FALSE) @@ ("game_score" :> 0)
                          @@ ("game_questions" :> 0) @@ @]

\* lines 258-259, 320, 374: the dispatch on game_mode
GameOf(r, words, mode, click, inp) ==
    CASE mode = DM -> DefinitionMatch(r, words, click, inp)
      [] mode = FB -> FillInTheBlank(r, words, click, inp)
      [] mode = QF -> QuickFire(r, words, click, inp)

\* a faulty games tab, which does not look at the size of the pool
PlayGamesAnyPool(r, words, mode, click, inp) ==
    GameOf(InitGame(Show(r, "radio")), words, mode, click, inp)

\* lines 242-479
PlayGames(r, words, mode, click, inp) ==
    IF Len(words) < MinPool THEN Show(r, "warning: need 4 words")
    ELSE GameOf(InitGame(Show(r, "radio")), words, mode, click, inp)

-----------------------------------------------------------------------------
(* Tab 3: review *)

\* line 485
DueWords(words, t) == LET Due(w) == w.next_review <= t IN SelectSeq(words, Due)

\* lines 513-515 and 519-521
ReviewDone(r, remembered) ==
    IF r.status # "running" THEN r
    ELSE [r EXCEPT !.ss = ("review_index" :> (@["review_index"] + 1)) @@ @,
                   !.out = @ \cup {IF remembered THEN "success: Great job"
                                   ELSE "info: That's okay"},
                   !.status = "rerun"]

\* lines 511-515 and 517-521
ReviewAnswer(r, word, remembered, inp) ==
    ReviewDone(update_mastery(Note(r, [op |-> "review", remembered |-> remembered]),
                              word.id, word.mastery_score, remembered, inp.store_ok),
               remembered)

\* lines 492-493
InitReview(r) ==
    IF Has(r.ss, "review_index") THEN r ELSE Set(r, "review_index", 0)

\* lines 495-531
ReviewWord(r, due_words, click, inp) ==
    IF r.ss["review_index"] < Len(due_words)
    THEN IF click = "yes"
         THEN ReviewAnswer([r EXCEPT !.out = @ \cup {"word", "yes"}],
                           due_words[r.ss["review_index"] + 1], TRUE, inp)
         ELSE IF click = "no"
         THEN ReviewAnswer([r EXCEPT !.out = @ \cup {"word", "yes", "no"}],
                           due_words[r.ss["review_index"] + 1], FALSE, inp)
         ELSE [r EXCEPT !.out = @ \cup {"word", "yes", "no"}]
    ELSE IF click = "new_review"
         THEN [r EXCEPT !.ss = ("review_index" :> 0) @@ @,
                        !.out = @ \cup {"success: Review session complete", "new_review"},
                        !.log = Append(@, [op |-> "new_review"]),
                        !.status = "rerun"]
         ELSE [r EXCEPT !.out = @ \cup {"success: Review session complete", "new_review"}]

\* lines 482-531
Review(r, words, click, inp) ==
    IF r.status # "running" THEN r
    ELSE IF DueWords(words, r.now) = <<>> THEN Show(r, "success: No words due")
    ELSE ReviewWord(InitReview(Show(r, "info: words due")), DueWords(words, r.now),
                    click, inp)

-----------------------------------------------------------------------------
(* Tab 4: the collection *)

\* key=f"del_{word['id']}"
DelKeys == <<"del_1", "del_2", "del_3", "del_4", "del_5", "del_6", "del_7", "del_8">>

\* lines 93-100
delete_word(r, word_id, store_ok) ==
    IF store_ok
    THEN LET Kept(w) == w.id # word_id
         IN [r EXCEPT !.db = SelectSeq(@, Kept),
                      !.out = @ \cup {"success: Deleted"},
                      !.log = Append(@, [op |-> "store.delete", word_id |-> word_id,
                                         ok |-> TRUE]),
                      !.status = "rerun"]
    ELSE [r EXCEPT !.out = @ \cup {"error: Delete Error"},
                   !.log = Append(@, [op |-> "store.delete", word_id |-> word_id,
                                      ok |-> FALSE])]

\* lines 554-583: one expander with a Delete button per word
RECURSIVE Expanders(_, _, _, _, _)
Expanders(r, words, i, click, inp) ==
    IF r.status # "running" \/ i > Len(words) THEN r
    ELSE Expanders(IF click = DelKeys[words[i].id]
                   THEN delete_word(Show(r, DelKeys[words[i].id]), words[i].id,
                                    inp.store_ok)
                   ELSE Show(r, DelKeys[words[i].id]),
                   words, i + 1, click, inp)

\* lines 534-583, with the filter left at "All Words"
Collection(r, words, click, inp) ==
    IF r.status # "running" THEN r
    ELSE IF words = <<>> THEN Show(r, "info: collection empty")
    ELSE Expanders(r, words, 1, click, inp)

-----------------------------------------------------------------------------
(* The script, top to bottom, and the runs that serve one interaction *)

\* tabs 2 to 4, which a run reaches when tab 1 neither raised nor asked for a
\* rerun
Tabs(r, words, mode, click, inp) ==
    IF r.status # "running" THEN r
    ELSE Collection(Review(PlayGames(r, words, mode, click, inp), words, click, inp),
                    words, click, inp)

\* line 168: words = get_all_words(), then the four tabs
Script(ss, d, t, mode, click, inp) ==
    Tabs(AddWord([ss |-> ss, db |-> d, now |-> t, out |-> {}, log |-> <<>>,
                  status |-> "running"], click, inp),
         get_all_words(d), mode, click, inp)

\* st.rerun() starts the script again at once, with no button pressed
Rerender(r, mode, inp) ==
    IF r.status # "rerun" THEN r
    ELSE [Script(r.ss, r.db, r.now, mode, "none", inp) EXCEPT !.log = r.log \o @]

Serve(ss, d, t, mode, click, inp) == Rerender(Script(ss, d, t, mode, click, inp), mode, inp)

-----------------------------------------------------------------------------
(* Initial state: a stored collection, and the page as first loaded *)

\* mastery_score of the stored words when the page is opened
InitScores == <<0, 2, 4, 5>>

InitDb == [i \in Ids |-> [id |-> i, mastery_score |-> InitScores[i], next_review |-> 0]]

NoText == Text(0, "lower", FALSE)
NoInput == [question |-> <<>>, store_ok |-> TRUE, typed |-> NoText,
            new_word |-> "", response |-> NoResponse, new_id |-> 0]

Init ==
    /\ db = InitDb
    /\ now = 0
    /\ game_mode = DM
    /\ calls = 0
    /\ next_id = MinPool + 1
    /\ session_state = Serve(<<>>, InitDb, 0, DM, "none", NoInput).ss
    /\ screen = Serve(<<>>, InitDb, 0, DM, "none", NoInput).out
    /\ log = <<>>

-----------------------------------------------------------------------------
(* User interactions.  Each is the click, the run it causes and the rerun   *)
(* that run asks for.                                                       *)

Questions(mode, words) ==
    CASE mode = DM -> DMQuestions(words)
      [] mode = FB -> FBQuestions(words)
      [] mode = QF -> QFQuestions(words)

\* the update_mastery calls among the effects of a run
Calls(effects) == LET IsCall(e) == e.op = "update_mastery" IN Len(SelectSeq(effects, IsCall))

\* the rows a run inserted
Inserts(effects) ==
    LET IsInsert(e) == e.op = "store.insert" /\ e.ok IN Len(SelectSeq(effects, IsInsert))

\* the variables after the runs r that served an interaction
Outcome(r, mode) ==
    /\ db' = r.db
    /\ session_state' = r.ss
    /\ screen' = r.out
    /\ log' = r.log
    /\ calls' = calls + Calls(r.log)
    /\ next_id' = next_id + Inserts(r.log)
    /\ game_mode' = mode
    /\ UNCHANGED now

Click(button, mode, inp) ==
    Outcome(Serve(session_state, db, now, mode, button, inp), mode)

Visible(button) == button \in screen

\* Start Game of the selected mode; g: the question the random module yields
ClickStart(g) ==
    /\ Visible("start")
    /\ g \in Questions(game_mode, get_all_words(db))
    /\ Click("start", game_mode, [NoInput EXCEPT !.question = g])

\* an option button of Definition Match
ClickOption(i, ok) ==
    /\ Visible(OptionKeys[i])
    /\ Click(OptionKeys[i], game_mode, [NoInput EXCEPT !.store_ok = ok])

\* Submit Answer of Fill in the Blank, with t typed into the text input
ClickSubmit(t, ok) ==
    /\ Visible("submit")
    /\ t \in TypedAnswers(session_state["current_question"].id)
    /\ Click("submit", game_mode, [NoInput EXCEPT !.store_ok = ok, !.typed = t])

\* TRUE or FALSE of Quick Fire
ClickTrueFalse(button, ok) ==
    /\ Visible(button)
    /\ Click(button, game_mode, [NoInput EXCEPT !.store_ok = ok])

\* Next Question of any mode; g: the question the random module yields
ClickNext(button, g) ==
    /\ Visible(button)
    /\ g \in Questions(game_mode, get_all_words(db))
    /\ Click(button, game_mode, [NoInput EXCEPT !.question = g])

\* Play Again of any mode
ClickPlayAgain(button) ==
    /\ Visible(button)
    /\ Click(button, game_mode, NoInput)

\* the radio of the games tab
SelectMode(mode) ==
    /\ Visible("radio")
    /\ mode # game_mode
    /\ Click("radio", mode, NoInput)

\* "Yes, I knew it!" and "No, I forgot" of the review tab
ClickReview(button, ok) ==
    /\ Visible(button)
    /\ Click(button, game_mode, [NoInput EXCEPT !.store_ok = ok])

ClickNewReview ==
    /\ Visible("new_review")
    /\ Click("new_review", game_mode, NoInput)

\* Analyze of the add-word tab, with new_word in the text input and the
\* provider answering with response
ClickAnalyze(new_word, response) ==
    /\ Visible("analyze")
    /\ Click("analyze", game_mode,
             [NoInput EXCEPT !.new_word = new_word, !.response = response])

\* Save to Collection
ClickSave(ok) ==
    /\ Visible("save")
    /\ Click("save", game_mode, [NoInput EXCEPT !.store_ok = ok, !.new_id = next_id])

\* Try Another Word
ClickTryAnother ==
    /\ Visible("try_another")
    /\ Click("try_another", game_mode, NoInput)

\* Delete of the collection tab
ClickDelete(word_id, ok) ==
    /\ Visible(DelKeys[word_id])
    /\ Click(DelKeys[word_id], game_mode, [NoInput EXCEPT !.store_ok = ok])

\* delete_word served to another session of the app on the same table: the
\* row goes, this session's page and session state stay as they are
OtherSessionDeletes(word_id) ==
    /\ \E i \in DOMAIN db : db[i].id = word_id
    /\ db' = LET Kept(w) == w.id # word_id IN SelectSeq(db, Kept)
    /\ UNCHANGED <<now, session_state, game_mode, screen, log, calls, next_id>>

\* datetime.now() moves on by a day
Tick ==
    /\ now' = now + 1
    /\ UNCHANGED <<db, session_state, game_mode, screen, log, calls, next_id>>

\* update_mastery called on its own
Schedule(word_id, current_score, remembered, ok) ==
    Outcome(update_mastery([ss |-> session_state, db |-> db, now |-> now, out |-> {},
                            log |-> <<>>, status |-> "running"],
                           word_id, current_score, remembered, ok),
            game_mode)

-----------------------------------------------------------------------------
(* Specifications *)

\* every text the model lets the user type
AllTyped == UNION {TypedAnswers(i) : i \in Ids}

Idle == ~session_state["game_active"]

GameQuestions == session_state["game_questions"]

SessionLength(mode) ==
    CASE mode = DM -> DMLength
      [] mode = FB -> FBLength
      [] mode = QF -> QFLength

\* an answer in the mode that is selected
AnswerClick(ok) ==
    \/ \E i \in DOMAIN OptionKeys : ClickOption(i, ok)
    \/ \E t \in AllTyped : ClickSubmit(t, ok)
    \/ \E b \in {"true", "false"} : ClickTrueFalse(b, ok)

\* every question the random module can yield now
AnyQuestion == Questions(game_mode, get_all_words(db))

NextButtons == {"next", "next2"}
AgainButtons == {"play_again", "replay2"}

\* Spec: games of one mode, started and restarted at any time, on a store
\* that may reject writes.
Next ==
    \/ (Idle /\ \E g \in AnyQuestion : ClickStart(g))
    \/ (calls < MaxCalls /\ \E ok \in BOOLEAN : AnswerClick(ok))
    \/ \E b \in NextButtons, g \in AnyQuestion : ClickNext(b, g)
    \/ (Idle /\ \E m \in Modes : SelectMode(m))

Spec == Init /\ [][Next]_vars

\* LongSpec: one session played to its end and beyond, on a store that
\* accepts every write.
Active == session_state["game_active"]

\* the session has had its sessionLength answers
Finished == Active /\ GameQuestions >= SessionLength(game_mode)

\* Start Game is clicked with no session, when the session has had all its
\* answers, and in the middle of the last session explored
Restartable == Idle \/ Finished \/ calls = LongCalls - 2

LongNext ==
    \/ (Restartable /\ \E g \in AnyQuestion : ClickStart(g))
    \/ (/\ calls < LongCalls
        /\ GameQuestions < SessionLength(game_mode) + MaxOverrun
        /\ AnswerClick(TRUE))
    \/ \E b \in NextButtons, g \in AnyQuestion : ClickNext(b, g)
    \/ \E b \in AgainButtons : ClickPlayAgain(b)
    \/ (Idle /\ \E m \in Modes : SelectMode(m))

LongSpec == Init /\ [][LongNext]_vars

\* SchedSpec: update_mastery applied to every input.
SchedNext ==
    /\ calls < SchedCalls
    /\ \E w \in Ids, s \in 0..MaxLevel, m \in BOOLEAN, ok \in BOOLEAN : Schedule(w, s, m, ok)

SchedSpec == Init /\ [][SchedNext]_vars

\* ReviewSpec: the review tab, on a store that may reject writes.
ReviewNext ==
    \/ (calls < ReviewCalls /\ \E b \in {"yes", "no"}, ok \in BOOLEAN : ClickReview(b, ok))
    \/ ClickNewReview

ReviewSpec == Init /\ [][ReviewNext]_vars

\* the pool shrinks under the games tab: words are deleted, here and in
\* another session, modes are selected and games started
PoolNext ==
    \/ \E id \in Ids, ok \in BOOLEAN : ClickDelete(id, ok)
    \/ \E id \in Ids : OtherSessionDeletes(id)
    \/ ((Idle \/ Len(db) < MinPool) /\ \E g \in AnyQuestion : ClickStart(g))
    \/ \E m \in Modes : SelectMode(m)

PoolSpec == Init /\ [][PoolNext]_vars

\* words are analysed, saved, reviewed and deleted, and days pass
NewWords == {"", "serendipity"}

AddNext ==
    \/ \E w \in NewWords : ClickAnalyze(w, Expected)
    \/ (next_id <= MaxId /\ \E ok \in BOOLEAN : ClickSave(ok))
    \/ ClickTryAnother
    \/ \E id \in 1..MaxId : ClickDelete(id, TRUE)
    \/ (calls < AddCalls /\ \E b \in {"yes", "no"}, ok \in BOOLEAN : ClickReview(b, ok))
    \/ (now < MaxNow /\ Tick)

AddSpec == Init /\ [][AddNext]_vars

\* the provider answers with text of every shape
ProviderNext ==
    \/ \E w \in NewWords, v \in Responses : ClickAnalyze(w, v)
    \/ (next_id <= MaxId /\ \E ok \in BOOLEAN : ClickSave(ok))
    \/ ClickTryAnother
    \/ \E m \in Modes : SelectMode(m)
    \/ (now < MaxNow /\ Tick)

ProviderSpec == Init /\ [][ProviderNext]_vars

\* modes are selected in the middle of sessions
SwitchNext ==
    \/ \E g \in AnyQuestion : ClickStart(g)
    \/ \E m \in Modes : SelectMode(m)
    \/ \E b \in NextButtons, g \in AnyQuestion : ClickNext(b, g)
    \/ (calls < SwitchCalls /\ AnswerClick(TRUE))

SwitchSpec == Init /\ [][SwitchNext]_vars

\* Definition Match question generation on its own, over every pool drawn
\* from MaxGen words
GenRows == [i \in 1..MaxGen |-> [id |-> i, mastery_score |-> 0, next_review |-> 0]]
GenPools == UNION {Samples(GenRows, n) : n \in 1..MaxGen}

GenInit ==
    /\ db \in GenPools
    /\ now = 0
    /\ game_mode = DM
    /\ calls = 0
    /\ next_id = MaxGen + 1
    /\ session_state = InitGame([ss |-> <<>>]).ss
    /\ screen = {}
    /\ log = <<>>

\* lines 269-277 and 304-309 with the outcome g of choice, sample and shuffle
Generate(g) ==
    /\ session_state' = Load([ss |-> session_state], g).ss
    /\ log' = <<[op |-> "generate"]>>
    /\ UNCHANGED <<db, now, game_mode, calls, next_id, screen>>

GenNext == \E g \in DMQuestions(get_all_words(db)) : Generate(g)

GenSpec == GenInit /\ [][GenNext]_vars

\* The blanking of Fill in the Blank on its own.  An examples string is the
\* sequence of its words; a word of two letters or more is written all in
\* lower case, capitalized or all in upper case.
Styles == {"lower", "capitalized", "upper"}
Capitalize(t) == [t EXCEPT !.style = "capitalized"]
Upper(t) == [t EXCEPT !.style = "upper"]
Placeholder == Text(0, "______", FALSE)

\* str.replace(old, new)
Replace(s, old, new) == [i \in DOMAIN s |-> IF s[i] = old THEN new ELSE s[i]]

\* lines 341-343
HiddenExample(example, word_to_hide) ==
    Replace(Replace(Replace(example, word_to_hide, Placeholder),
                    Capitalize(word_to_hide), Placeholder),
            Upper(word_to_hide), Placeholder)

\* the stored word 1 as it was typed, and examples that use it and word 2
StoredWords == {Text(1, c, FALSE) : c \in Styles}
ExampleWords == StoredWords \cup {Text(2, "lower", FALSE)}
Examples == UNION {[1..n -> ExampleWords] : n \in 1..MaxExample}

BlankInit ==
    /\ db = InitDb
    /\ now = 0
    /\ game_mode = FB
    /\ calls = 0
    /\ next_id = MinPool + 1
    /\ \E w \in StoredWords, e \in Examples :
          session_state = ("current_question" :> [id |-> 1, word |-> w, examples |-> e])
                          @@ ResetGame([ss |-> <<>>]).ss
    /\ screen = {"start"}
    /\ log = <<>>

\* lines 334-345: the question is rendered
HideWord ==
    /\ log = <<>>
    /\ log' = <<[op |-> "hidden_example",
                 hidden |-> HiddenExample(session_state["current_question"].examples,
                                          session_state["current_question"].word)]>>
    /\ screen' = {"start", "question", "text_input", "submit"}
    /\ UNCHANGED <<db, now, game_mode, calls, next_id, session_state>>

BlankSpec == BlankInit /\ [][HideWord]_vars

-----------------------------------------------------------------------------
(* Properties *)

GameScore == session_state["game_score"]
CurrentQuestion == session_state["current_question"]

AnyAnswer == \E ok \in BOOLEAN : AnswerClick(ok)

Mastery(d) == [i \in DOMAIN d |-> d[i].mastery_score]

\* the row of the table with this id
Row(word_id) == db[CHOOSE i \in DOMAIN db : db[i].id = word_id]

\* the effects of the last interaction that are of this kind
Effects(kind) == LET Is(e) == e.op = kind IN SelectSeq(log, Is)

\* every key of the generated question g holds g's value
Loaded(g) == \A k \in DOMAIN g : Has(session_state, k) /\ session_state[k] = g[k]

\* C1: once a session has had sessionLength answers (10, 10, 15) it is
\* finished, and a further answer changes neither the score, nor the
\* questions-answered counter, nor any word's mastery level.
C1_FinishedRejectsAnswers ==
    [][(Finished /\ AnyAnswer) =>
          /\ session_state'["game_score"] = GameScore
          /\ session_state'["game_questions"] = GameQuestions
          /\ Mastery(db') = Mastery(db)]_vars

\* C2: Play Again leaves no active session, and score and
\* questions-answered counter at 0.
C2_PlayAgainResets ==
    [][(Finished /\ \E b \in AgainButtons : ClickPlayAgain(b)) =>
          /\ ~session_state'["game_active"]
          /\ session_state'["game_score"] = 0
          /\ session_state'["game_questions"] = 0]_vars

\* C3: Next Question, offered after an answer below the session length,
\* puts the newly generated question (and the mode's auxiliary data) in place
\* and leaves score and questions-answered counter as they are.
C3_NextQuestionLoads ==
    [][\A b \in NextButtons, g \in AnyQuestion :
          ClickNext(b, g) =>
             /\ Loaded(g)'
             /\ session_state'["game_score"] = GameScore
             /\ session_state'["game_questions"] = GameQuestions]_vars

\* the update_mastery call and the store write of the last interaction
LastCall == Effects("update_mastery")[1]
LastWrite == Effects("store.update")[1]
Called == Effects("update_mastery") # <<>>
Written == Effects("store.update") # <<>>

\* C4 as claimed: update_mastery with remembered = true stores
\* current_score + 1, for every current_score >= 0.
C4_StoresLevelPlusOne ==
    (Called /\ LastCall.remembered) =>
        /\ Written
        /\ LastWrite.mastery_score = LastCall.current_score + 1

\* C4 as amended: update_mastery with remembered = true stores
\* current_score + 1 up to 5, and 5 from there on.
C4_StoresLevelPlusOneUpTo5 ==
    (Called /\ LastCall.remembered) =>
        /\ Written
        /\ LastWrite.mastery_score =
              (IF LastCall.current_score < 5 THEN LastCall.current_score + 1 ELSE 5)
        /\ LastWrite.ok => Row(LastCall.word_id).mastery_score = LastWrite.mastery_score

C4_Witness ==
    /\ Called /\ LastCall.remembered /\ LastCall.current_score > 5
    /\ Written /\ LastWrite.ok /\ Row(LastCall.word_id).mastery_score = 5

\* C5: update_mastery with remembered = true sets the next review to now + D
\* days, D the entry of [0, 1, 3, 7, 14, 30] at min(current_score + 1, 5); the
\* lookup raises no IndexError.
C5_DelayOfResultingLevel ==
    (Called /\ LastCall.remembered) =>
        /\ "IndexError" \notin screen
        /\ Written
        /\ LastWrite.next_review =
              now + <<0, 1, 3, 7, 14, 30>>[Min(LastCall.current_score + 1, 5) + 1]
        /\ LastWrite.ok => Row(LastCall.word_id).next_review = LastWrite.next_review

C5_Witness ==
    /\ Called /\ LastCall.remembered /\ LastCall.current_score >= 5
    /\ Written /\ LastWrite.ok /\ Row(LastCall.word_id).next_review = now + 30

\* C6: update_mastery with remembered = false stores level 0 and a next
\* review of now, so the word is due at once.
C6_ForgottenResets ==
    (Called /\ ~LastCall.remembered) =>
        /\ Written
        /\ LastWrite.mastery_score = 0
        /\ LastWrite.next_review = now
        /\ LastWrite.ok =>
              /\ Row(LastCall.word_id).mastery_score = 0
              /\ Row(LastCall.word_id).next_review <= now

C6_Witness ==
    /\ Called /\ ~LastCall.remembered /\ LastCall.current_score = 3
    /\ Written /\ LastWrite.ok /\ Row(LastCall.word_id).mastery_score = 0

\* C7: Start Game, clicked with no session, in the middle of a session or
\* after the session's last answer, makes the session active, sets score and
\* questions-answered counter to 0 and puts a first question of the selected
\* mode in place.
C7_StartResets ==
    Effects("start") # <<>> =>
        /\ Active
        /\ GameScore = 0
        /\ GameQuestions = 0
        /\ \E g \in Questions(game_mode, get_all_words(db)) : Loaded(g)
        /\ "question" \in screen

\* a start served after the last answer of a session
C7_Witness ==
    /\ Effects("start") # <<>>
    /\ calls >= SessionLength(game_mode)
    /\ calls <= SessionLength(game_mode) + MaxOverrun
    /\ Active /\ GameScore = 0 /\ GameQuestions = 0

\* a start served in the middle of a session
C7_MidSession ==
    /\ Effects("start") # <<>>
    /\ calls = LongCalls - 2
    /\ game_mode # QF
    /\ Active /\ GameScore = 0 /\ GameQuestions = 0

\* the counters after an answer whose outcome under the mode's rule is c
Counted(c) ==
    /\ session_state'["game_questions"] = GameQuestions + 1
    /\ session_state'["game_score"] = GameScore + (IF c THEN 1 ELSE 0)

\* C8: every answer adds 1 to the questions-answered counter, and 1 to the
\* score exactly if it is right under the mode's rule: the chosen option has
\* the question's id; the typed text, trimmed and whatever its case, is the
\* word; the TRUE/FALSE choice is the truth flag.
C8_AnswerCounts ==
    [][\A ok \in BOOLEAN :
          /\ game_mode = DM =>
                \A i \in DOMAIN OptionKeys :
                   ClickOption(i, ok) =>
                      Counted(session_state["options"][i].id = CurrentQuestion.id)
          /\ game_mode = FB =>
                \A t \in AllTyped :
                   ClickSubmit(t, ok) =>
                      Counted(t.base = WordOf(CurrentQuestion.id).base)
          /\ game_mode = QF =>
                \A b \in {"true", "false"} :
                   ClickTrueFalse(b, ok) =>
                      Counted((b = "true") = session_state["is_correct"])]_vars

\* a wrong answer followed by a right one
C8_Witness ==
    /\ Effects("answer") # <<>> /\ Effects("answer")[1].correct
    /\ GameQuestions = 2 /\ GameScore = 1

\* C9: every answer calls update_mastery exactly once, for the word of the
\* current question, with remembered = the answer was counted as correct, and
\* does so before it reports the running score.
C9_AnswerSchedules ==
    Effects("answer") # <<>> =>
        /\ Len(Effects("update_mastery")) = 1
        /\ LastCall.word_id = CurrentQuestion.id
        /\ LastCall.remembered = Effects("answer")[1].correct
        /\ \E i, j \in DOMAIN log :
              /\ i < j
              /\ log[i].op = "update_mastery"
              /\ log[j].op = "st.info"
              /\ log[j].score = GameScore

\* a wrong answer whose update the store rejected
C9_Witness ==
    /\ Effects("answer") # <<>> /\ ~Effects("answer")[1].correct
    /\ Called /\ ~LastCall.remembered
    /\ Written /\ ~LastWrite.ok

\* C10: a mastery write that the store rejected leaves its error on the page
\* when the interaction is over.
C10_FailedUpdateShown ==
    (Written /\ ~LastWrite.ok) => "error: Update failed" \in screen

\* a Quick Fire question is on the page, with its TRUE and FALSE buttons
QFPresented == game_mode = QF /\ Active /\ Visible("true")

\* C11: whenever Quick Fire presents a question, its truth flag is true
\* exactly if the shown definition is the first meaning of the word of the
\* current question (with flag false it is the first meaning of another word).
C11_ShownDefinitionFitsFlag ==
    QFPresented =>
        (session_state["is_correct"]
            <=> session_state["shown_definition"] = FirstMeaning(CurrentQuestion.id))

\* the ids of a list of words, in order
IdsOf(lst) == [i \in DOMAIN lst |-> lst[i].id]

\* C12: a generated Definition Match question over a pool of distinct ids has
\* the question's word exactly once among its options and no id twice, every
\* option a word of the pool; the options are 4 when the pool holds at least 4
\* words, and the whole pool when it holds fewer.
C12_OptionsOfGeneratedQuestion ==
    Effects("generate") # <<>> =>
        LET options == IdsOf(session_state["options"])
        IN /\ Len(options) = (IF Len(db) >= 4 THEN 4 ELSE Len(db))
           /\ Cardinality({i \in DOMAIN options : options[i] = CurrentQuestion.id}) = 1
           /\ \A i, j \in DOMAIN options : options[i] = options[j] => i = j
           /\ Range(options) \subseteq Range(IdsOf(db))

\* a question generated over a pool of more than four words
C12_Witness ==
    /\ Effects("generate") # <<>>
    /\ Len(db) > 4
    /\ Len(session_state["options"]) = 4
    /\ CurrentQuestion.id \in Range(IdsOf(session_state["options"]))

\* C13: a Start Game click that reaches the script when the pool holds fewer
\* than 4 words gets the not-enough-words warning and changes nothing: the
\* session state (active flag, score, counter, current question) and the
\* stored words stay as they are, and no question is presented.
C13_SmallPoolRejectsStart ==
    [][Len(db) < MinPool =>
          \A g \in AnyQuestion :
             ClickStart(g) =>
                /\ session_state' = session_state
                /\ db' = db
                /\ "warning: need 4 words" \in screen'
                /\ "question" \notin screen']_vars

\* the warning on the page of an active session whose pool has shrunk
C13_Witness ==
    /\ Len(db) < MinPool
    /\ "warning: need 4 words" \in screen
    /\ "start" \notin screen
    /\ Active /\ Has(session_state, "current_question")

\* C14: in Fill in the Blank, a Start Game click with a pool of at least 1
\* word starts a session.
C14_FillInTheBlankStartsWithOneWord ==
    [][(game_mode = FB /\ Len(db) >= 1) =>
          \A g \in AnyQuestion :
             ClickStart(g) => (session_state'["game_active"] /\ Loaded(g)')]_vars

\* the insert or update e, accepted by the table, wrote level and review
\* date of row w
Wrote(e, w) ==
    /\ e.op \in {"store.insert", "store.update"}
    /\ e.ok
    /\ e.word_id = w.id
    /\ e.mastery_score = w.mastery_score
    /\ e.next_review = w.next_review

\* C15: a row's mastery level and next review date only ever come from one
\* single insert or update that wrote the two together: after every step each
\* row either is as it was, or holds the level and the date of one accepted
\* write of that step.
C15_LevelAndDateWrittenTogether ==
    [][\A i \in DOMAIN db' :
          \/ \E j \in DOMAIN db : db[j] = db'[i]
          \/ \E k \in DOMAIN log' : Wrote(log'[k], db'[i])]_vars

\* a remembered review has moved level and date of a word at once
C15_Witness ==
    /\ Effects("review") # <<>>
    /\ Written /\ LastWrite.ok
    /\ LastWrite.mastery_score > 0 /\ LastWrite.next_review > now
    /\ Wrote(LastWrite, Row(LastWrite.word_id))

\* the insert of the last interaction, and the rows with the id it was for
Inserted == Effects("store.insert") # <<>>
LastInsert == Effects("store.insert")[1]
RowsOf(word_id) == LET Is(w) == w.id = word_id IN SelectSeq(db, Is)

\* C16: after a successful save the new word is in the table at level 0 and
\* among the due words, now and on every later day; after a failed save there
\* is no such word, the error is shown and the analysis is still pending with
\* its Save to Collection button.
C16_SavedWordIsNewAndDue ==
    Inserted =>
        IF LastInsert.ok
        THEN /\ Len(RowsOf(LastInsert.word_id)) = 1
             /\ RowsOf(LastInsert.word_id)[1].mastery_score = 0
             /\ RowsOf(LastInsert.word_id)[1].next_review <= now
             /\ RowsOf(LastInsert.word_id)[1] \in Range(DueWords(get_all_words(db), now))
             /\ ~Has(session_state, "temp_data")
        ELSE /\ RowsOf(LastInsert.word_id) = <<>>
             /\ "error: Database Error" \in screen
             /\ Has(session_state, "temp_data") /\ Has(session_state, "current_word")
             /\ Visible("save")

\* a saved word, a day after it was saved
C16_Witness ==
    /\ Inserted /\ LastInsert.ok
    /\ LastInsert.next_review < now
    /\ RowsOf(LastInsert.word_id) # <<>>
    /\ RowsOf(LastInsert.word_id)[1] \in Range(DueWords(get_all_words(db), now))

\* a save the table refused, the analysis still pending
C16_FailedSave ==
    /\ Inserted /\ ~LastInsert.ok
    /\ Has(session_state, "temp_data") /\ Visible("save")

\* the value has the shape the prompt asks for
WellFormed(v) == v.kind = "dict" /\ v.meanings = 3 /\ v.examples

\* C17: a provider response that is not of the expected shape is never
\* stored as pending analysis, and no run fails on one: the pending analysis,
\* when there is one, has a 3-element 'meanings' list and an 'examples' text,
\* and no KeyError or TypeError ends a run.
C17_MalformedResponseIsProviderError ==
    /\ Has(session_state, "temp_data") => WellFormed(session_state["temp_data"])
    /\ "KeyError" \notin screen
    /\ "TypeError" \notin screen

\* C18: in whatever case the word is stored, the blanked example shows it in
\* none of the three cases any more (all lower case, capitalized, all upper
\* case): every such occurrence has become the placeholder.
C18_BlankingHidesEveryCase ==
    Effects("hidden_example") # <<>> =>
        \A i \in DOMAIN Effects("hidden_example")[1].hidden :
           Effects("hidden_example")[1].hidden[i].base # CurrentQuestion.word.base

\* C19: a presented question takes one answer: when the last interaction was
\* an answer, so that no Start Game or Next Question has put a new question
\* in place since, a further answer changes neither the counter, nor the
\* score, nor any word's mastery level.
C19_OneAnswerPerQuestion ==
    [][(Effects("answer") # <<>> /\ AnyAnswer) =>
          /\ session_state'["game_questions"] = GameQuestions
          /\ session_state'["game_score"] = GameScore
          /\ Mastery(db') = Mastery(db)]_vars

\* C20: the level an answer passes to update_mastery as current_score is the
\* level the table holds for the word of the question when the answer is
\* given.
C20_SchedulerGetsStoredLevel ==
    [][AnyAnswer => LastCall'.current_score = Row(CurrentQuestion.id).mastery_score]_vars

\* the first review pass: Start New Review has not reset the index, so the
\* index counts the answers given, and each answer was given to one word
FirstPass == Has(session_state, "review_index") /\ session_state["review_index"] = calls

\* C21: when the first review pass reports 'Review session complete', every
\* word that was due when it started has been presented and answered, so at
\* least as many answers were given as words were due at the start.
C21_PassCoversDueWords ==
    (FirstPass /\ "success: Review session complete" \in screen) =>
        calls >= Len(DueWords(get_all_words(InitDb), 0))

\* C22: while a session is active, the session state holds what the selected
\* mode reads to render it: the options for Definition Match, the shown
\* definition and the truth flag for Quick Fire; no run of an active session
\* ends in a KeyError.
C22_ModeDataExists ==
    Active =>
        /\ game_mode = DM => Has(session_state, "options")
        /\ game_mode = QF => (/\ Has(session_state, "shown_definition")
                              /\ Has(session_state, "is_correct"))
        /\ "KeyError" \notin screen

-----------------------------------------------------------------------------
(* A pool of one word more than a question shows, so that the options of a   *)
(* Definition Match question leave one word of the pool out.                 *)

WideDb == InitDb \o <<[id |-> MinPool + 1, mastery_score |-> 0, next_review |-> 0]>>

WideInit ==
    /\ db = WideDb
    /\ now = 0
    /\ game_mode = DM
    /\ calls = 0
    /\ next_id = MinPool + 2
    /\ session_state = Serve(<<>>, WideDb, 0, DM, "none", NoInput).ss
    /\ screen = Serve(<<>>, WideDb, 0, DM, "none", NoInput).out
    /\ log = <<>>

\* WideSpec: games started at any time in Definition Match and in Fill in
\* the Blank, and the mode radio moved between the two
WideNext ==
    \/ \E g \in AnyQuestion : ClickStart(g)
    \/ \E m \in {DM, FB} : SelectMode(m)

WideSpec == WideInit /\ [][WideNext]_vars

\* Definition Match renders the question and its option buttons (lines 280-288)
DMPresented ==
    /\ game_mode = DM
    /\ Active
    /\ "question" \in screen
    /\ Visible(OptionKeys[1])

\* the option buttons that carry the current question's word (line 290)
CorrectOptions ==
    {i \in DOMAIN session_state["options"] :
        session_state["options"][i].id = CurrentQuestion.id}

\* C23: whenever Definition Match presents a question, exactly one of the
\* presented options is the current question's word, also after a game was
\* started in another mode and the player returned to Definition Match.
C23_OptionsHoldTheAnswer == DMPresented => Cardinality(CorrectOptions) = 1

-----------------------------------------------------------------------------
(* Every writer of the mastery level together: game answers, review answers  *)
(* and saved words.  A write the store rejects leaves the table as it was,   *)
(* so the store accepts every write here.                                    *)

LevelNext ==
    \/ (Idle /\ \E g \in AnyQuestion : ClickStart(g))
    \/ (Idle /\ \E m \in Modes : SelectMode(m))
    \/ (calls < LevelCalls /\ AnswerClick(TRUE))
    \/ (calls < LevelCalls /\ \E b \in {"yes", "no"} : ClickReview(b, TRUE))
    \/ ClickAnalyze("serendipity", Expected)
    \/ (next_id <= MaxId /\ ClickSave(TRUE))

LevelSpec == Init /\ [][LevelNext]_vars

\* C24: the stored mastery level of every word is an integer in 0..5, after
\* any sequence of saved words, review answers and game answers.
C24_StoredLevelInRange ==
    \A i \in DOMAIN db : db[i].mastery_score \in 0..5

\* a word at level 5 was remembered and rewritten, and a saved word is in the
\* table
C24_Witness ==
    /\ Called /\ LastCall.remembered /\ LastCall.current_score = 5
    /\ Written /\ LastWrite.ok /\ Row(LastCall.word_id).mastery_score = 5
    /\ Len(db) > MinPool

\* the Game Over branch was rendered, so the percentage of lines 313, 367,
\* 439 and 475 was computed from the counters in the session state
GameOver == "success: Game Over" \in screen

\* C25: the score is never negative and never above the questions-answered
\* counter; the percentage score / questions * 100 is computed only with a
\* counter above 0 and lies in 0..100.
C25_ScoreWithinCounter ==
    /\ 0 <= GameScore
    /\ GameScore <= GameQuestions
    /\ GameOver =>
          /\ GameQuestions > 0
          /\ 0 <= GameScore * 100
          /\ GameScore * 100 <= 100 * GameQuestions

\* Game Over reported on the last answer of a session with right and wrong
\* answers in it
C25_Witness ==
    /\ GameOver
    /\ GameQuestions = SessionLength(game_mode)
    /\ 0 < GameScore /\ GameScore < GameQuestions

====
